---- MODULE Spec2Model ----
(***************************************************************************)
(* Model of the tagtog webhook bridge (src/app.py).                        *)
(*                                                                         *)
(* Module import time (lines 11-66) is the start-up sequence: the          *)
(* annotations legend is fetched, inverted, and the spaCy pipeline loaded. *)
(* The Flask development server started by app.run (line 166) handles each *)
(* POST / in a thread of its own; a thread's position in respond() is      *)
(* req[w].pc.  The only module-level object respond() writes is the dict   *)
(* get_params_doc (line 131), and line 133 is its only read: a request is  *)
(* two steps, Receive (lines 126-131) and Process (lines 133-161), whose    *)
(* second step touches nothing another thread writes.  served is the       *)
(* request answered last, with the remote calls it made, kept until the    *)
(* next request arrives.                                                   *)
(***************************************************************************)
EXTENDS Naturals, Sequences, FiniteSets, TLC

\* ------------------------------------------------------------------ bounds
MaxWorkers == 2
MaxSpans == 2

Workers == 1..MaxWorkers

\* ---------------------------------------------------- python value helpers
None == "None"

Truthy(v) == v # None /\ v # ""

DictGet(d, k, default) == IF k \in DOMAIN d THEN d[k] ELSE default

DictSetDefault(d, k, v) == [x \in DOMAIN d \cup {k} |-> IF x \in DOMAIN d THEN d[x] ELSE v]

DictSet(d, k, v) == [x \in DOMAIN d \cup {k} |-> IF x = k THEN v ELSE d[x]]

EmptyDict == [x \in {} |-> None]

\* ------------------------------------------------------------ remote data
DocIds == {"doc-1", "doc-2"}

\* JSON bodies of the trigger request: no key, null, empty string, an id
Bodies == {EmptyDict} \cup {[k \in {"tagtogID"} |-> v] : v \in DocIds \cup {None, ""}}

Labels == {"PERSON", "GPE"}

\* the legend as the remote service returns it: (class id, name) in key order
Legends ==
  { << <<"e_1", "PERSON">>, <<"e_2", "GPE">> >>,
    << <<"e_1", "PERSON">>, <<"e_2", "PERSON">> >>,
    << >> }

LegendStatuses == {200, 204, 401}

pipeline == "en_core_web_sm"

\* ---------------------------------------------------------- label resolver
RECURSIVE InvertFrom(_, _, _)
InvertFrom(items, i, acc) ==
  IF i > Len(items) THEN acc
  ELSE InvertFrom(items, i + 1, DictSet(acc, items[i][2], items[i][1]))

\* {name: class_id for class_id, name in map_ids_to_names.items()}
InvertLegend(items) == InvertFrom(items, 1, EmptyDict)

LegendStatusAny(status) == TRUE

\* assert res.status_code == 200
LegendStatusOk(status) == status = 200

\* --------------------------------------------------------- html documents
\* A parsed node: an element (id attribute or NoId, children) or a text run
\* (a sequence of tokens).
NoId == "<no id>"
TextNode == "<text>"

Text(toks) == [id |-> TextNode, kids |-> << >>, toks |-> toks]
Elem(id, kids) == [id |-> id, kids |-> kids, toks |-> << >>]

\* <body><p id="s1">Alice</p><p id="s2">Paris</p></body>
DocFlat == << Elem("s1", <<Text(<<"Alice">>)>>), Elem("s2", <<Text(<<"Paris">>)>>) >>

\* <body><div><p id="s2">Alice <b id="s1">Paris</b></p></div></body>
DocNested ==
  << Elem(NoId, << Elem("s2", << Text(<<"Alice ">>), Elem("s1", <<Text(<<"Paris">>)>>) >>) >>) >>

\* <body><p>Alice</p></body>
DocNoIds == << Elem(NoId, <<Text(<<"Alice">>)>>) >>

\* <html><body><h1>Not Found</h1></body></html>
ErrPage == << Elem(NoId, <<Text(<<"Not Found">>)>>) >>

Html(body) == [has_body |-> TRUE, body |-> body]
\* a body that is no html (a JSON or plain-text error message): soup.body is None
NoHtml == [has_body |-> FALSE, body |-> << >>, served_for |-> None]

\* what the documents endpoint can answer: (status code, content)
FetchAnswers ==
  ({200} \X {Html(DocFlat), Html(DocNested), Html(DocNoIds)})
    \cup ({404} \X {NoHtml, Html(ErrPage)})

SubmitStatuses == {200, 500}

\* ------------------------------------------------------- segment extractor
_has_part_id(elem) == elem.id # NoId

RECURSIVE find_all(_)
\* Tag.find_all(_has_part_id): the descendant elements, in document order
find_all(nodes) ==
  IF nodes = << >> THEN << >>
  ELSE LET n == Head(nodes)
       IN  (IF n.id = TextNode THEN << >>
            ELSE (IF _has_part_id(n) THEN <<n>> ELSE << >>) \o find_all(n.kids))
           \o find_all(Tail(nodes))

RECURSIVE get_text(_)
\* Tag.text: the text runs of all descendants, concatenated
get_text(nodes) ==
  IF nodes = << >> THEN << >>
  ELSE LET n == Head(nodes)
       IN  (IF n.id = TextNode THEN n.toks ELSE get_text(n.kids)) \o get_text(Tail(nodes))

\* list(gen_parts_generator_over_plain_html(raw)) when the parse has a body
gen_parts_generator_over_plain_html(content) == find_all(content.body)

\* part.get('id') and part.text of a yielded element
PartId(part) == part.id
PartText(part) == get_text(part.kids)

\* ------------------------------------------------------------- recognizer
RECURSIVE StartChar(_, _)
StartChar(toks, p) == IF p = 1 THEN 0 ELSE StartChar(toks, p - 1) + Len(toks[p - 1])

\* the p of S with k - 1 elements of S below it
Nth(S, k) == CHOOSE p \in S : Cardinality({q \in S : q < p}) = k - 1

\* nlp(text).ents: any choice of non-overlapping spans, in text order, each
\* with some label; at most MaxSpans of them
RecOutputs(toks) ==
  UNION { { [k \in 1..Cardinality(S) |->
               [label_ |-> lab[Nth(S, k)],
                start_char |-> StartChar(toks, Nth(S, k)),
                text |-> toks[Nth(S, k)]]] : lab \in [S -> Labels] }
          : S \in {T \in SUBSET (1..Len(toks)) : Cardinality(T) <= MaxSpans} }

\* ------------------------------------------------------------------ state
VARIABLES
  proc,               \* position of the module's import: "import", "load", "serving", "aborted"
  module_globals,     \* the module-level names bound so far
  res,                \* the legend response inside get_tagtog_anntasks_json_map
  legend_calls,       \* number of GETs of the annotations legend issued
  map_ids_to_names,   \* line 50
  map_names_to_ids,   \* line 52
  nlp,                \* line 62
  get_params_doc,     \* line 34, written at line 131
  req,                \* per worker thread: its position in respond() and its docid
  served              \* the request answered since the last arrival: locals, remote calls, response

vars == << proc, module_globals, res, legend_calls, map_ids_to_names, map_names_to_ids,
           nlp, get_params_doc, req, served >>

\* ---------------------------------------------------- annotation assembler
\* map_names_to_ids.get(label, None)
get_class_id_echo(label) == DictGet(map_names_to_ids, label, label)

get_class_id(label) == DictGet(map_names_to_ids, label, None)

tagtog_entity_unbound_part(class_id, partId, span, pipe) ==
  [classId |-> class_id,
   part |-> "s1",
   offsets |-> << [start |-> span.start_char, text |-> span.text] >>,
   confidence |-> [state |-> "pre-added", who |-> << "ml:" \o pipe >>, prob |-> 1],
   fields |-> EmptyDict,
   normalizations |-> EmptyDict]

\* the dict appended at lines 85-96
tagtog_entity(class_id, partId, span, pipe) ==
  [classId |-> class_id,
   part |-> partId,
   offsets |-> << [start |-> span.start_char, text |-> span.text] >>,
   confidence |-> [state |-> "pre-added", who |-> << "ml:" \o pipe >>, prob |-> 1],
   fields |-> EmptyDict,
   normalizations |-> EmptyDict]

RECURSIVE get_entities_from(_, _, _, _, _)
get_entities_from(spans, pipe, partId, i, tagtog_entities) ==
  IF i > Len(spans) THEN tagtog_entities
  ELSE LET class_id == get_class_id(spans[i].label_)
       IN  get_entities_from(spans, pipe, partId, i + 1,
             IF class_id # None
             THEN Append(tagtog_entities, tagtog_entity(class_id, partId, spans[i], pipe))
             ELSE tagtog_entities)

get_entities(spans, pipe, partId) == get_entities_from(spans, pipe, partId, 1, << >>)

\* ------------------------------------------------------------ the handler
Response == [status |-> 200, body |-> ""]
\* what Flask answers when respond() raises
InternalServerError == [status |-> 500, body |-> "Internal Server Error"]
NoResponse == [status |-> 0, body |-> ""]

ResponseOfSubmit(post_response) ==
  IF post_response.status_code = 200 THEN Response ELSE InternalServerError

\* line 161, after print(post_response.text)
ResponseAfterSubmit(post_response) == Response

NoFetch == [status_code |-> 0, content |-> NoHtml]

AnnJsonConfirmed == [anncomplete |-> TRUE, metas |-> EmptyDict, relations |-> << >>, entities |-> << >>]

\* lines 137-143
InitAnnJson == [anncomplete |-> FALSE, metas |-> EmptyDict, relations |-> << >>, entities |-> << >>]

ExtendFront(list, more) == more \o list

\* list += more
Extend(list, more) == list \o more

\* json.dumps: the serialized text stands for the value it encodes
JsonDumps(v) == [json |-> v]

TruthyAlways(v) == TRUE

\* if docid:
IfDocid(v) == Truthy(v)

SetIdsOnce(params, docid) == DictSetDefault(params, "ids", docid)

\* get_params_doc['ids'] = docid
SetIds(params, docid) == DictSet(params, "ids", docid)

IdleReq == [pc |-> "idle", docid |-> None]

NoneServed ==
  [answered |-> FALSE, docid |-> None, get_response |-> NoFetch, annjson |-> EmptyDict,
   calls |-> << >>, fetched |-> << >>, posts |-> << >>, response |-> NoResponse]

RECURSIVE RecChoices(_)
\* one recognizer output per part, for the calls of nlp at line 150
RecChoices(parts) ==
  IF parts = << >> THEN { << >> }
  ELSE { <<r>> \o rest : r \in RecOutputs(PartText(Head(parts))), rest \in RecChoices(Tail(parts)) }

RECURSIVE LoopOverParts(_, _, _)
\* lines 145-153: the loop, from an annjson and the parts still to come
LoopOverParts(parts, recs, annjson) ==
  IF parts = << >> THEN annjson
  ELSE LET partId == PartId(Head(parts))
           ents == Head(recs)
       IN  LoopOverParts(Tail(parts), Tail(recs),
             [annjson EXCEPT !.entities = Extend(@, get_entities(ents, pipeline, partId))])

\* the calls of get_entities the loop makes: arguments and result
CallsOfLoop(parts, recs) ==
  [k \in 1..Len(parts) |->
     [ents |-> recs[k], partId |-> PartId(parts[k]),
      out |-> get_entities(recs[k], pipeline, PartId(parts[k]))]]

Init ==
  /\ proc = "import"
  /\ module_globals = {"get_params_doc"}
  /\ res = [status_code |-> 0, json |-> << >>]
  /\ legend_calls = 0
  /\ map_ids_to_names = << >>
  /\ map_names_to_ids = EmptyDict
  /\ nlp = None
  /\ get_params_doc = [owner |-> "MY_USERNAME", project |-> "MY_PROJECT", output |-> "plain.html"]
  /\ req = [w \in Workers |-> IdleReq]
  /\ served = NoneServed

\* lines 42-52: the legend GET, the assert, the inversion
FetchLegend ==
  /\ proc = "import"
  /\ \E st \in LegendStatuses, lg \in Legends :
       /\ res' = [status_code |-> st, json |-> lg]
       /\ legend_calls' = legend_calls + 1
       /\ IF LegendStatusOk(st)
          THEN /\ map_ids_to_names' = lg
               /\ map_names_to_ids' = InvertLegend(lg)
               /\ module_globals' = module_globals \cup {"map_ids_to_names", "map_names_to_ids"}
               /\ proc' = "load"
          ELSE /\ proc' = "aborted"
               /\ UNCHANGED << map_ids_to_names, map_names_to_ids, module_globals >>
  /\ UNCHANGED << nlp, get_params_doc, req, served >>

\* lines 61-62 and, when spacy.load returns, app.run at line 166
LoadModel ==
  /\ proc = "load"
  /\ \E loaded \in BOOLEAN :
       IF loaded
       THEN /\ nlp' = pipeline
            /\ module_globals' = module_globals \cup {"nlp"}
            /\ proc' = "serving"
       ELSE /\ proc' = "aborted"
            /\ UNCHANGED << nlp, module_globals >>
  /\ UNCHANGED << res, legend_calls, map_ids_to_names, map_names_to_ids, get_params_doc,
                  req, served >>

\* lines 126-131: a thread takes a POST /, reads the id and stores it in
\* get_params_doc; without an id it goes to line 161 at once
Receive(w) ==
  /\ proc = "serving"
  /\ req[w].pc = "idle"
  /\ \E body \in Bodies :
       LET docid == DictGet(body, "tagtogID", None) IN
       IF IfDocid(docid)
       THEN /\ get_params_doc' = SetIds(get_params_doc, docid)
            /\ req' = [req EXCEPT ![w] = [pc |-> "fetch", docid |-> docid]]
            /\ served' = NoneServed
       ELSE /\ served' = [NoneServed EXCEPT !.answered = TRUE, !.docid = docid,
                                            !.response = Response]
            /\ UNCHANGED << get_params_doc, req >>
  /\ UNCHANGED << proc, module_globals, res, legend_calls, map_ids_to_names, map_names_to_ids, nlp >>

\* what a request can meet after line 131: an answer of the documents endpoint
\* and, for a content with a body, one recognizer output per part
Encounters ==
  UNION { IF ans[2].has_body
          THEN { [ans |-> ans, parts |-> find_all(ans[2].body), recs |-> recs]
                   : recs \in RecChoices(find_all(ans[2].body)) }
          ELSE { [ans |-> ans, parts |-> << >>, recs |-> << >>] }
          : ans \in FetchAnswers }

\* lines 133-161: the document GET with the parameters as they are now, the
\* parse (soup.body is None for a content that is no html), the loop over the
\* parts, the import POST and the response
Process(w) ==
  /\ req[w].pc = "fetch"
  /\ \E met \in Encounters :
       LET docid == req[w].docid
           get_response == [status_code |-> met.ans[1],
                            content |-> [has_body |-> met.ans[2].has_body,
                                         body |-> met.ans[2].body,
                                         served_for |-> get_params_doc["ids"]]]
           doc_plain_html == get_response.content
           started == [NoneServed EXCEPT !.answered = TRUE, !.docid = docid,
                                         !.get_response = get_response,
                                         !.fetched = << get_params_doc >>,
                                         !.annjson = InitAnnJson]
       IN  IF doc_plain_html.has_body
           THEN LET parts == gen_parts_generator_over_plain_html(doc_plain_html)
                    annjson == LoopOverParts(parts, met.recs, InitAnnJson)
                    files == << << docid \o ".plain.html", doc_plain_html >>,
                                << docid \o ".ann.json", JsonDumps(annjson) >> >>
                IN  \E st \in SubmitStatuses :
                      LET post_response == [status_code |-> st] IN
                      served' = [started EXCEPT
                                   !.annjson = annjson,
                                   !.calls = CallsOfLoop(parts, met.recs),
                                   !.posts = << [files |-> files, status_code |-> st] >>,
                                   !.response = ResponseAfterSubmit(post_response)]
           ELSE served' = [started EXCEPT !.response = InternalServerError]
  /\ req' = [req EXCEPT ![w] = IdleReq]
  /\ UNCHANGED << proc, module_globals, res, legend_calls, map_ids_to_names, map_names_to_ids,
                  nlp, get_params_doc >>

Next ==
  \/ FetchLegend
  \/ LoadModel
  \/ \E w \in Workers : Receive(w)
  \/ \E w \in Workers : Process(w)

Spec == Init /\ [][Next]_vars

\* no other request is inside respond()
NoOverlap(w) == \A v \in Workers \ {w} : req[v].pc = "idle"

\* the same server handling one request at a time
NextSeq ==
  \/ FetchLegend
  \/ LoadModel
  \/ \E w \in Workers : NoOverlap(w) /\ Receive(w)
  \/ \E w \in Workers : Process(w)

SpecSeq == Init /\ [][NextSeq]_vars

\* ================================================================ claims
Is2xx(status) == status >= 200 /\ status <= 299

InFlight(w) == req[w].pc # "idle"

\* C1: for every interleaving of concurrent requests, each request's document
\* GET carries that request's own id, and the two files it submits are named
\* after its id and hold the document served for that id and the annotations
\* built from it.
C1_NoSharedMutableState ==
  /\ \A k \in 1..Len(served.fetched) : served.fetched[k]["ids"] = served.docid
  /\ \A k \in 1..Len(served.posts) :
       LET files == served.posts[k].files IN
       /\ files[1][1] = served.docid \o ".plain.html"
       /\ files[2][1] = served.docid \o ".ann.json"
       /\ files[1][2].served_for = served.docid
       /\ files[2][2] = JsonDumps(served.annjson)

\* C2: a request whose document GET answered a non-2xx status makes no
\* import POST.
C2_FetchFailureAborts ==
  (served.fetched # << >> /\ ~Is2xx(served.get_response.status_code))
    => served.posts = << >>

\* C3: a request whose body has no tagtogID (absent or null) is answered with
\* the empty 200 response at once and issues neither a document GET nor an
\* import POST, whatever the other threads and get_params_doc hold.
C3_NoIdNoOutboundCall ==
  /\ \A w \in Workers : InFlight(w) => req[w].docid # None
  /\ (served.answered /\ served.docid = None)
       => /\ served.response = Response
          /\ served.fetched = << >>
          /\ served.posts = << >>

C3_Witness ==
  /\ served.answered /\ served.docid = None /\ served.response = Response
  /\ "ids" \in DOMAIN get_params_doc
  /\ \E v \in Workers : req[v].pc = "fetch"

\* C4: a request that has issued the import POST is answered with the empty
\* 200 response whatever the POST's status, and it issued the POST once.
C4_SubmitOutcomeIgnored ==
  served.posts # << >>
    => /\ Len(served.posts) = 1
       /\ served.response = Response

C4_Witness ==
  /\ served.posts # << >>
  /\ served.posts[1].status_code = 500
  /\ served.response = Response

LegendNames == {res.json[i][2] : i \in 1..Len(res.json)}

\* C5: the legend is fetched once at most; a non-2xx answer aborts the process;
\* an aborted process handles no request; a request is handled only when the
\* process is serving, with the complete inverted legend and the model bound.
C5_StartupGate ==
  /\ legend_calls <= 1
  /\ (legend_calls = 1 /\ ~Is2xx(res.status_code)) => proc = "aborted"
  /\ proc = "aborted" => (~served.answered /\ \A w \in Workers : ~InFlight(w))
  /\ (served.answered \/ \E w \in Workers : InFlight(w))
       => /\ proc = "serving"
          /\ legend_calls = 1
          /\ {"map_names_to_ids", "nlp"} \subseteq module_globals
          /\ nlp = pipeline
          /\ DOMAIN map_names_to_ids = LegendNames
          /\ \A n \in LegendNames :
               \E i \in 1..Len(res.json) : res.json[i] = << map_names_to_ids[n], n >>

C5_Witness ==
  /\ proc = "serving"
  /\ legend_calls = 1
  /\ res.json # << >>
  /\ served.posts # << >>

LegendIds == {map_ids_to_names[i][1] : i \in 1..Len(map_ids_to_names)}

MappedIn(spans) == {j \in 1..Len(spans) : spans[j].label_ \in DOMAIN map_names_to_ids}

\* C6: every call of get_entities returns one annotation per span whose label
\* is in the category map, in span order, with the mapped class id, and none
\* for the other spans; each classId is a class id of the legend and there are
\* no more annotations than spans.
C6_GetEntitiesMapsLabels ==
  \A k \in 1..Len(served.calls) :
    LET spans == served.calls[k].ents
        out == served.calls[k].out
        mapped == MappedIn(spans)
    IN  /\ Len(out) = Cardinality(mapped)
        /\ Len(out) <= Len(spans)
        /\ \A j \in mapped :
             out[Cardinality({i \in mapped : i <= j})].classId
               = map_names_to_ids[spans[j].label_]
        /\ \A n \in 1..Len(out) : out[n].classId \in LegendIds

C6_Witness ==
  \E k \in 1..Len(served.calls) :
    LET spans == served.calls[k].ents IN
    /\ Len(spans) = 2
    /\ Len(served.calls[k].out) = 1
    /\ spans[1].label_ \notin DOMAIN map_names_to_ids
    /\ spans[2].label_ \in DOMAIN map_names_to_ids

\* --- document order, stated on paths (child indexes from the body down)
RECURSIVE PathsOf(_)
PathsOf(nodes) ==
  UNION { {<<i>>} \cup {<<i>> \o q : q \in PathsOf(nodes[i].kids)} : i \in 1..Len(nodes) }

RECURSIVE NodeAt(_, _)
NodeAt(nodes, path) ==
  IF Len(path) = 1 THEN nodes[path[1]] ELSE NodeAt(nodes[path[1]].kids, Tail(path))

\* p comes before q in a pre-order walk
Before(p, q) ==
  \E n \in 0..Len(p) :
    /\ n <= Len(q)
    /\ \A i \in 1..n : p[i] = q[i]
    /\ \/ n = Len(p) /\ n < Len(q)
       \/ n < Len(p) /\ n < Len(q) /\ p[n + 1] < q[n + 1]

SegmentPaths(body) ==
  {p \in PathsOf(body) : NodeAt(body, p).id \notin {TextNode, NoId}}

\* the k-th element with an id, in document order
Segment(body, k) ==
  NodeAt(body, CHOOSE p \in SegmentPaths(body) :
                 Cardinality({q \in SegmentPaths(body) : Before(q, p)}) = k - 1)

\* the text runs below a path, in document order
TextRuns(body, p) ==
  {q \in PathsOf(body) :
     /\ Len(q) > Len(p)
     /\ \A i \in 1..Len(p) : q[i] = p[i]
     /\ NodeAt(body, q).id = TextNode}

\* --- the mapped spans of the request, as (segment index, span index)
MappedPairs ==
  {p \in (1..Len(served.calls)) \X (1..MaxSpans) :
     p[2] <= Len(served.calls[p[1]].ents) /\ p[2] \in MappedIn(served.calls[p[1]].ents)}

PairBefore(p, q) == p[1] < q[1] \/ (p[1] = q[1] /\ p[2] < q[2])

Rank(p) == 1 + Cardinality({q \in MappedPairs : PairBefore(q, p)})

Submitted == served.posts[1].files[2][2].json

\* C7: the entities of the submitted document are the mapped spans of the
\* document's segments, segment by segment in document order and in
\* recognizer order within a segment, each once.
C7_EntitiesInSegmentOrder ==
  served.posts # << >>
    => LET body == served.get_response.content.body
           calls == served.calls
           entities == Submitted.entities
       IN  /\ Len(calls) = Cardinality(SegmentPaths(body))
           /\ \A k \in 1..Len(calls) : calls[k].partId = Segment(body, k).id
           /\ Len(entities) = Cardinality(MappedPairs)
           /\ \A p \in MappedPairs :
                LET e == entities[Rank(p)]
                    span == calls[p[1]].ents[p[2]]
                IN  /\ e.classId = map_names_to_ids[span.label_]
                    /\ e.offsets = << [start |-> span.start_char, text |-> span.text] >>
                    /\ e.part = calls[p[1]].partId

C7_Witness ==
  /\ served.posts # << >>
  /\ served.get_response.content.body = DocNested
  /\ Len(Submitted.entities) = 3
  /\ Submitted.entities[1].part = "s2"
  /\ Submitted.entities[2].part = "s2"
  /\ Submitted.entities[3].part = "s1"
  /\ Submitted.entities[1].offsets[1].start < Submitted.entities[2].offsets[1].start

\* C8: every annotation carries the id of the segment its span was recognized
\* in: the annotation of the j-th mapped span of the i-th segment of the
\* fetched document has part equal to that segment's id attribute, and the
\* span's text is a text run of that segment.
C8_PartIsOwnSegment ==
  (served.answered /\ served.get_response.content.has_body)
    => LET parts == gen_parts_generator_over_plain_html(served.get_response.content)
       IN  /\ Len(served.annjson.entities) = Cardinality(MappedPairs)
           /\ \A p \in MappedPairs :
                LET e == served.annjson.entities[Rank(p)] IN
                /\ e.part = parts[p[1]].id
                /\ e.offsets[1].text = served.calls[p[1]].ents[p[2]].text
                /\ \E i \in 1..Len(get_text(parts[p[1]].kids)) :
                     get_text(parts[p[1]].kids)[i] = e.offsets[1].text

C8_Witness ==
  /\ served.answered
  /\ served.get_response.content.body = DocFlat
  /\ Len(served.annjson.entities) = 2
  /\ served.annjson.entities[1].part = "s1"
  /\ served.annjson.entities[2].part = "s2"

FixedEntityFields(e) ==
  /\ e.fields = EmptyDict
  /\ e.normalizations = EmptyDict
  /\ Len(e.offsets) = 1
  /\ e.confidence.state = "pre-added"
  /\ e.confidence.prob = 1

FixedDocumentFields(doc) ==
  /\ doc.anncomplete = FALSE
  /\ doc.metas = EmptyDict
  /\ doc.relations = << >>
  /\ \A n \in 1..Len(doc.entities) : FixedEntityFields(doc.entities[n])

\* C9: the annotation document of a request, as built and as submitted, has
\* anncomplete false, no metas, no relations, and entities with no fields, no
\* normalizations, one offset, state 'pre-added', probability 1.
C9_FixedFields ==
  /\ served.annjson # EmptyDict => FixedDocumentFields(served.annjson)
  /\ \A k \in 1..Len(served.posts) : FixedDocumentFields(served.posts[k].files[2][2].json)

C9_Witness ==
  /\ served.posts # << >>
  /\ Len(Submitted.entities) >= 2

\* C10: with requests handled one at a time, every document GET of a request
\* carries that request's id, whatever id earlier requests left in
\* get_params_doc, and a request without an id issues no GET.
C10_SequentialFetchUsesOwnId ==
  /\ \A k \in 1..Len(served.fetched) :
       /\ Truthy(served.docid)
       /\ DictGet(served.fetched[k], "ids", None) = served.docid
  /\ (served.answered /\ ~Truthy(served.docid)) => served.fetched = << >>
  /\ \A w \in Workers : InFlight(w) => get_params_doc["ids"] = req[w].docid

\* a request without an id answered while an earlier request's id is stored
C10_Witness ==
  /\ served.answered /\ served.docid = None /\ served.fetched = << >>
  /\ "ids" \in DOMAIN get_params_doc

====
